---------------------------- MODULE Spec2Model ----------------------------
(***************************************************************************)
(* A model of the karaoke subtitle backend (src/backend/server.py):        *)
(* the two SubtitleSet constructors (align_text_with_whisper and the       *)
(* fallback branch of process_audio_text), the correct_timing handler,     *)
(* the two serializers (generate_ttml, generate_lrc) with their download   *)
(* handlers, and the upload / background-processing life cycle of a        *)
(* project.                                                                *)
(*                                                                         *)
(* Representation.                                                         *)
(*   - A string is a sequence of one-character strings, so that strip,     *)
(*     lower, split and the substring test are computed, not assumed.      *)
(*   - A time is an integer number of hundredths of a second; round(x, 1)  *)
(*     is Round1, which yields a multiple of 10.                           *)
(*   - A confidence is an integer number of hundredths.                    *)
(*   - An Optional value is a record [none, value]: None or Some(v).       *)
(*   - A TTML file is the element tree ET.tostring writes out, its begin    *)
(*     and end attributes as the strings the code formats; an LRC file is  *)
(*     the string the code builds.                                         *)
(***************************************************************************)
EXTENDS Integers, Sequences, FiniteSets, TLC

VARIABLES
    \* ---- the system (Spec, FairSpec) ----
    whisper_model,   \* the global of server.py:58: TRUE when a model was loaded
    project,         \* the project's document in db.projects
    task,            \* the background process_audio_text task of the project
    request,         \* the in-flight correct_timing requests
    \* ---- the constructors (CreateSpec) ----
    cr,              \* the inputs of one construction and its output
    \* ---- correct_timing, one request at a time (CorrectSpec) ----
    ct,              \* the stored SubtitleSet and the last request
    \* ---- the downloads before and after corrections (ExportSpec) ----
    ex               \* the stored SubtitleSet and what was downloaded

vars == <<whisper_model, project, task, request, cr, ct, ex>>

----------------------------------------------------------------------------
(* Strings *)

Whitespace == {" ", "\n"}

WordChars == {"a", "b", "c", "x", "A", "B", "C", "X"}

\* the characters of the allow-list of clean_text besides \w and \s
Punctuation == {"-", ".", ",", "!", "?"}

\* str.lower() on one character
LowerChar(c) ==
    CASE c = "A" -> "a"
      [] c = "B" -> "b"
      [] c = "C" -> "c"
      [] c = "X" -> "x"
      [] OTHER   -> c

lower(s) == [i \in 1..Len(s) |-> LowerChar(s[i])]

RECURSIVE lstrip(_)
lstrip(s) ==
    IF s # <<>> /\ Head(s) \in Whitespace THEN lstrip(Tail(s)) ELSE s

RECURSIVE rstrip(_)
rstrip(s) ==
    IF s # <<>> /\ s[Len(s)] \in Whitespace
    THEN rstrip(SubSeq(s, 1, Len(s) - 1))
    ELSE s

\* str.strip()
strip(s) == rstrip(lstrip(s))

\* Python's  a in b  on strings
IsSubstring(a, b) ==
    \E i \in 0..(Len(b) - Len(a)) : SubSeq(b, i + 1, i + Len(a)) = a

\* re.sub(r'\s+', ' ', s): every maximal run of whitespace becomes one space
RECURSIVE collapse_whitespace(_)
collapse_whitespace(s) ==
    IF s = <<>> THEN <<>>
    ELSE IF Head(s) \in Whitespace
         THEN <<" ">> \o collapse_whitespace(lstrip(s))
         ELSE <<Head(s)>> \o collapse_whitespace(Tail(s))

\* re.sub(r'[^\w\s\-\.,!?]', '', s): drop every character off the allow-list
RECURSIVE drop_special(_)
drop_special(s) ==
    IF s = <<>> THEN <<>>
    ELSE IF Head(s) \in WordChars \cup Whitespace \cup Punctuation
         THEN <<Head(s)>> \o drop_special(Tail(s))
         ELSE drop_special(Tail(s))

clean_text(text) == drop_special(collapse_whitespace(strip(text)))

\* the first word of s (s starts with a non-whitespace character)
RECURSIVE first_word(_)
first_word(s) ==
    IF s = <<>> \/ Head(s) \in Whitespace THEN <<>>
    ELSE <<Head(s)>> \o first_word(Tail(s))

\* str.split(): the maximal runs of non-whitespace, in order
RECURSIVE split(_)
split(s) ==
    LET t == lstrip(s) IN
    IF t = <<>> THEN <<>>
    ELSE LET w == first_word(t) IN
         <<w>> \o split(SubSeq(t, Len(w) + 1, Len(t)))

----------------------------------------------------------------------------
(* Numbers *)

\* The hundredths h with h % 10 = 5 below 4.00 s for which Python's
\* round(h / 100, 1) goes up: the float nearest to h/100 lies above the tie
\* (or, for an exact tie, the even neighbour is the upper one).
RoundsUp ==
    {5, 45, 55, 65, 75, 105, 135, 155, 175, 185, 235, 245, 275, 285, 295,
     335, 345, 375, 385, 395}

\* round(h / 100, 1), in hundredths, for 0 <= h < 400
Round1(h) ==
    LET r == h % 10
        lo == (h \div 10) * 10
    IN  IF r < 5 THEN lo
        ELSE IF r > 5 THEN lo + 10
        ELSE IF h \in RoundsUp THEN lo + 10 ELSE lo

----------------------------------------------------------------------------
(* align_text_with_whisper *)

\* the inner loop over original_words: the first original word that
\* contains, or is contained in, the recognizer word, compared in lower case
RECURSIVE find_match(_, _)
find_match(word, original_words) ==
    IF original_words = <<>> THEN word
    ELSE LET orig_word == Head(original_words) IN
         IF IsSubstring(lower(orig_word), lower(word))
            \/ IsSubstring(lower(word), lower(orig_word))
         THEN orig_word
         ELSE find_match(word, Tail(original_words))

\* best_match without the break: the last matching original word wins
best_match_LastWins(word_text, original_words) ==
    LET word == strip(word_text)
        hits == {i \in 1..Len(original_words) :
                    IsSubstring(lower(original_words[i]), lower(word))
                    \/ IsSubstring(lower(word), lower(original_words[i]))}
    IN  IF hits = {} THEN word
        ELSE original_words[CHOOSE i \in hits : \A j \in hits : j <= i]

\* best_match for one recognizer word; word_text is word_info['word']
best_match(word_text, original_words) ==
    find_match(strip(word_text), original_words)

aligned_word(word_info, original_words) ==
    [word       |-> best_match(word_info.word, original_words),
     start      |-> Round1(word_info.start),
     end        |-> Round1(word_info.end),
     confidence |-> word_info.confidence]

\* aligned_segment with its bounds rebuilt from its words
aligned_segment_Rebuilt(segment, original_words) ==
    LET ws == [i \in 1..Len(segment.words) |->
                  aligned_word(segment.words[i], original_words)]
    IN  [start |-> ws[1].start,
         end   |-> ws[Len(ws)].end,
         text  |-> strip(segment.text),
         words |-> ws]

\* the dict appended for one recognizer segment that has words
aligned_segment(segment, original_words) ==
    [start |-> Round1(segment.start),
     end   |-> Round1(segment.end),
     text  |-> strip(segment.text),
     words |-> [i \in 1..Len(segment.words) |->
                   aligned_word(segment.words[i], original_words)]]

\* align_segments without the  if not segment_words: continue
align_segments_KeepsEmpty(whisper_segments, original_words) ==
    [i \in 1..Len(whisper_segments) |->
        aligned_segment(whisper_segments[i], original_words)]

RECURSIVE align_segments(_, _)
align_segments(whisper_segments, original_words) ==
    IF whisper_segments = <<>> THEN <<>>
    ELSE LET segment == Head(whisper_segments)
             rest == align_segments(Tail(whisper_segments), original_words)
         IN  IF segment.words = <<>> THEN rest
             ELSE <<aligned_segment(segment, original_words)>> \o rest

align_text_with_whisper(whisper_result, original_text) ==
    align_segments(whisper_result.segments, split(clean_text(original_text)))

----------------------------------------------------------------------------
(* the fallback branch of process_audio_text *)

time_per_word == 50

default_confidence == 80

\* fallback_entry with the segment's end left at its start
fallback_entry_EndAtStart(word, current_time) ==
    [start |-> Round1(current_time),
     end   |-> Round1(current_time),
     text  |-> word,
     words |-> <<[word       |-> word,
                  start      |-> Round1(current_time),
                  end        |-> Round1(current_time + time_per_word),
                  confidence |-> default_confidence]>>]

\* the dict appended for one word at current_time
fallback_entry(word, current_time) ==
    [start |-> Round1(current_time),
     end   |-> Round1(current_time + time_per_word),
     text  |-> word,
     words |-> <<[word       |-> word,
                  start      |-> Round1(current_time),
                  end        |-> Round1(current_time + time_per_word),
                  confidence |-> default_confidence]>>]

\* fallback_loop that stops one word early
fallback_loop_StopsEarly(words, current_time) ==
    [i \in 1..(Len(words) - 1) |->
        fallback_entry(words[i], current_time + (i - 1) * time_per_word)]

RECURSIVE fallback_loop(_, _)
fallback_loop(words, current_time) ==
    IF words = <<>> THEN <<>>
    ELSE <<fallback_entry(Head(words), current_time)>>
         \o fallback_loop(Tail(words), current_time + time_per_word)

fallback_segments(original_text) == fallback_loop(split(original_text), 0)


----------------------------------------------------------------------------
(* correct_timing: the loop over the corrections *)

None == [none |-> TRUE, value |-> <<>>]

Some(v) == [none |-> FALSE, value |-> v]

\* Python's s[i] on a list of n elements, as a 1-based position: a negative
\* i counts from the end; i outside -n..n-1 raises IndexError
PyIndex(n, i) == IF i >= 0 THEN i + 1 ELSE n + i + 1

Raised == [raised |-> TRUE, segments |-> <<>>]

\* set_word_times with the new values rounded to 1 decimal
set_word_times_Rounded(segments, si, wi, correction) ==
    [segments EXCEPT
        ![si].words[wi].start = Round1(correction.new_start_time),
        ![si].words[wi].end = Round1(correction.new_end_time)]

\* lines 352-354: word['start'], word['end'] = the new values
set_word_times(segments, si, wi, correction) ==
    [segments EXCEPT ![si].words[wi].start = correction.new_start_time,
                     ![si].words[wi].end = correction.new_end_time]

\* lines 349-354: one iteration of the loop
correct_entry(segments, correction) ==
    IF correction.segment_index < Len(segments)
    THEN IF correction.segment_index < 0 - Len(segments)
         THEN Raised      \* segments[segment_index]: IndexError
         ELSE LET si == PyIndex(Len(segments), correction.segment_index)
                  words == segments[si].words
              IN  IF correction.word_index < Len(words)
                  THEN IF correction.word_index < 0 - Len(words)
                       THEN Raised      \* segment['words'][word_index]
                       ELSE [raised |-> FALSE,
                             segments |->
                                 set_word_times(segments, si,
                                     PyIndex(Len(words), correction.word_index),
                                     correction)]
                  ELSE [raised |-> FALSE, segments |-> segments]
    ELSE [raised |-> FALSE, segments |-> segments]

\* lines 348-354: the loop; an exception leaves it at once
RECURSIVE correct_loop(_, _)
correct_loop(segments, corrections) ==
    IF corrections = <<>> THEN [raised |-> FALSE, segments |-> segments]
    ELSE LET one == correct_entry(segments, Head(corrections)) IN
         IF one.raised THEN Raised
         ELSE correct_loop(one.segments, Tail(corrections))

\* lines 346-354 on what find_one returned in 'aligned_segments': len(None)
\* raises TypeError at the first correction
correct_segments(aligned_segments, corrections) ==
    IF corrections = <<>> THEN [raised |-> FALSE, segments |-> aligned_segments]
    ELSE IF aligned_segments.none THEN [raised |-> TRUE, segments |-> None]
    ELSE LET r == correct_loop(aligned_segments.value, corrections) IN
         [raised |-> r.raised, segments |-> Some(r.segments)]

----------------------------------------------------------------------------
(* The serializers: generate_ttml and generate_lrc *)

DigitChars == <<"0", "1", "2", "3", "4", "5", "6", "7", "8", "9">>

Digit(d) == DigitChars[d + 1]

\* str(n) of an integer n >= 0
RECURSIVE Decimal(_)
Decimal(n) ==
    IF n < 10 THEN <<Digit(n)>> ELSE Decimal(n \div 10) \o <<Digit(n % 10)>>

\* f"{x:.1f}" of x = h / 100, h >= 0: correctly rounded to one decimal, as
\* round(x, 1) is
format_1f(h) ==
    LET tenths == Round1(h) \div 10 IN
    Decimal(tenths \div 10) \o <<".", Digit(tenths % 10)>>

\* f"{n:02d}" of an integer n >= 0
format_02d(n) == IF n < 10 THEN <<"0">> \o Decimal(n) ELSE Decimal(n)

\* f"{x:05.2f}" of x = h / 100, 0 <= h < 6000
format_05_2f(h) ==
    format_02d(h \div 100) \o <<".", Digit((h % 100) \div 10), Digit(h % 10)>>

\* lines 169-173 with begin and end exchanged
ttml_paragraph_Swapped(segment) ==
    [begin |-> format_1f(segment.end) \o <<"s">>,
     end   |-> format_1f(segment.start) \o <<"s">>,
     style |-> "defaultStyle",
     text  |-> segment.text]

\* lines 169-173: the p element of one segment
ttml_paragraph(segment) ==
    [begin |-> format_1f(segment.start) \o <<"s">>,
     end   |-> format_1f(segment.end) \o <<"s">>,
     style |-> "defaultStyle",
     text  |-> segment.text]

\* lines 150-175: the element tree that ET.tostring writes out, element by
\* element in document order: the root's attributes, head/styling/style and
\* body/div with one p per segment. project_name is not used.
generate_ttml(segments, project_name) ==
    [tag    |-> "tt",
     xmlns  |-> "http://www.w3.org/ns/ttml",
     lang   |-> "ru",
     styles |-> <<[id |-> "defaultStyle", textAlign |-> "center",
                   color |-> "white", fontSize |-> "18px"]>>,
     div    |-> [i \in 1..Len(segments) |-> ttml_paragraph(segments[i])]]

\* lines 187-188, 198-199 and the format of lines 191, 200, 202: MM:SS.ss
lrc_time(t) ==
    format_02d(t \div 6000) \o <<":">> \o format_05_2f(t % 6000)

\* line 200: the tag of one word, its text and a space
lrc_word_tag(word_info) ==
    <<"<">> \o lrc_time(word_info.start) \o <<">">> \o word_info.word
        \o <<" ">>

\* lines 195-200 with the first word left out
RECURSIVE lrc_word_line_SkipsFirst(_)
lrc_word_line_SkipsFirst(words) ==
    IF Len(words) <= 1 THEN <<>>
    ELSE lrc_word_tag(words[2]) \o lrc_word_line_SkipsFirst(Tail(words))

\* lines 195-200: word_line after the loop over the segment's words
RECURSIVE lrc_word_line(_)
lrc_word_line(words) ==
    IF words = <<>> THEN <<>>
    ELSE lrc_word_tag(Head(words)) \o lrc_word_line(Tail(words))

\* line 191 with the time of the segment's first word, if it has one
lrc_segment_line_FirstWord(segment) ==
    <<"[">>
        \o lrc_time(IF segment.words = <<>> THEN segment.start
                    ELSE segment.words[1].start)
        \o <<"]">> \o segment.text \o <<"\n">>

\* line 191: the segment line
lrc_segment_line(segment) ==
    <<"[">> \o lrc_time(segment.start) \o <<"]">> \o segment.text
        \o <<"\n">>

\* lines 185-202: what one segment adds to lrc_content
lrc_segment(segment) ==
    lrc_segment_line(segment)
        \o (IF segment.words /= <<>>
            THEN LET word_line == lrc_word_line(segment.words) IN
                 IF word_line /= <<>>
                 THEN <<"[">> \o lrc_time(segment.start) \o <<"]">>
                          \o strip(word_line) \o <<"\n">>
                 ELSE <<>>
            ELSE <<>>)

\* lines 184-202: the loop over the segments
RECURSIVE lrc_segments(_)
lrc_segments(segments) ==
    IF segments = <<>> THEN <<>>
    ELSE lrc_segment(Head(segments)) \o lrc_segments(Tail(segments))

lrc_ti ==
    <<"[", "t", "i", ":">>

lrc_ar ==
    <<"[", "a", "r", ":", "G", "e", "n", "e", "r", "a", "t", "e", "d", " ",
    "b", "y", " ", "K", "a", "r", "a", "o", "k", "e", " ", "S", "u", "b",
    "t", "i", "t", "l", "e", "s", "]", "\n">>

lrc_al ==
    <<"[", "a", "l", ":", "K", "a", "r", "a", "o", "k", "e", "]", "\n">>

lrc_by ==
    <<"[", "b", "y", ":", "W", "h", "i", "s", "p", "e", "r", " ", "A", "I",
    "]", "\n", "\n">>

\* lines 179-182: the four header lines and the empty line
lrc_header(project_name) ==
    lrc_ti \o project_name \o <<"]", "\n">>
        \o lrc_ar \o lrc_al \o lrc_by

\* lines 177-204
generate_lrc(segments, project_name) ==
    lrc_header(project_name) \o lrc_segments(segments)

----------------------------------------------------------------------------
(* Inputs of the constructors *)

MaxWords == 8       \* words of a fallback text
MaxRefWords == 2    \* words of the reference text given to the aligner
MaxRecWords == 2    \* recognizer words of one segment, word scenarios
MaxRecSegs == 2     \* recognizer segments of one result

SeqsUpTo(S, n) == UNION {[1..k -> S] : k \in 0..n}

RECURSIVE join(_, _)
join(words, sep) ==
    IF words = <<>> THEN <<>>
    ELSE IF Len(words) = 1 THEN words[1]
    ELSE words[1] \o sep \o join(Tail(words), sep)

Vocabulary == {<<"a", "b">>, <<"B">>}

\* texts with irregular whitespace, a newline and characters off the allow-list
OddTexts ==
    {<<" ", "a", "#", " ", "\n", "b", "!", " ">>,
     <<"#", " ", "a", "b">>}

FallbackTexts ==
    {join(ws, <<" ">>) : ws \in SeqsUpTo(Vocabulary, MaxWords)} \cup OddTexts

\* the audio's duration: an input the code never reads
Durations == {100, 400, 1400}

RefVocabulary == {<<"a", "b">>, <<"B">>, <<"c">>}

AlignTexts ==
    {join(ws, <<" ">>) : ws \in SeqsUpTo(RefVocabulary, MaxRefWords)}
    \cup OddTexts

\* word texts a recognizer hands over: padded, upper case, longer and shorter
\* than a reference word, empty, and one that matches nothing
RecWordTexts ==
    {<<"a">>, <<" ", "B">>, <<"a", "b", "c">>, <<"x">>, <<" ", "x">>, <<>>}

\* word scenarios: one segment whose words' times are laid out by position
WordAt(text, i) ==
    [word |-> text, start |-> 30 * (i - 1) + 4, end |-> 30 * i + 5,
     confidence |-> 95]

WordResults ==
    {[segments |->
        <<[start |-> 4, end |-> 30 * Len(ts) + 5,
           text |-> <<" ", "a", "b", " ", "c", " ">>,
           words |-> [i \in 1..Len(ts) |-> WordAt(ts[i], i)]]>>] :
       ts \in SeqsUpTo(RecWordTexts, MaxRecWords) \ {<<>>}}

\* segment scenarios: segments drawn from a pool in which bounds and word
\* order are set independently of each other
wA == [word |-> <<" ", "a">>, start |-> 4, end |-> 15, confidence |-> 95]

wB == [word |-> <<"c">>, start |-> 25, end |-> 155, confidence |-> 50]

SegPool ==
    {[start |-> sp[1], end |-> sp[2], text |-> t, words |-> ws] :
       sp \in {<<4, 155>>, <<0, 300>>, <<200, 100>>},
       t  \in {<<" ", "a", " ", "c">>, <<"x">>},
       ws \in {<<>>, <<wA>>, <<wA, wB>>, <<wB, wA>>}}

SegResults == {[segments |-> ss] : ss \in SeqsUpTo(SegPool, MaxRecSegs)}

SegTexts == {<<"a", "b", " ", "c">>, <<>>}

NoResult == [segments |-> <<>>]

----------------------------------------------------------------------------
(* CreateSpec: the two constructors applied to every input *)

IdleSystem ==
    /\ project = [exists |-> FALSE]
    /\ task = [pc |-> "none"]
    /\ request = <<>>

NoCr == [pc |-> "off"]

NoCt == [pc |-> "off"]

NoEx == [pc |-> "off"]

CrInput(text, dur, result) ==
    [pc |-> "input", original_text |-> text, duration |-> dur,
     result |-> result, aligned_segments |-> <<>>]

CreateInit ==
    /\ IdleSystem
    /\ ct = NoCt
    /\ ex = NoEx
    /\ \/ /\ whisper_model = FALSE
          /\ \E text \in FallbackTexts, dur \in Durations :
                cr = CrInput(text, dur, NoResult)
       \/ /\ whisper_model = TRUE
          /\ \E text \in AlignTexts, result \in WordResults :
                cr = CrInput(text, 400, result)
       \/ /\ whisper_model = TRUE
          /\ \E text \in SegTexts, result \in SegResults :
                cr = CrInput(text, 400, result)

\* process_audio_text, lines 267-271: the model was loaded
CreateAligned ==
    /\ cr.pc = "input"
    /\ whisper_model
    /\ cr' = [cr EXCEPT !.pc = "created",
                !.aligned_segments =
                    align_text_with_whisper(cr.result, cr.original_text)]
    /\ UNCHANGED <<whisper_model, project, task, request, ct, ex>>

\* process_audio_text, lines 284-303: no model
CreateFallback ==
    /\ cr.pc = "input"
    /\ ~whisper_model
    /\ cr' = [cr EXCEPT !.pc = "created",
                !.aligned_segments = fallback_segments(cr.original_text)]
    /\ UNCHANGED <<whisper_model, project, task, request, ct, ex>>

CreateNext == CreateAligned \/ CreateFallback

CreateSpec == CreateInit /\ [][CreateNext]_vars


----------------------------------------------------------------------------
(* Claims about the constructors (CreateSpec) *)

FallbackCreated == cr.pc = "created" /\ ~whisper_model

AlignerCreated == cr.pc = "created" /\ whisper_model

\* the words the fallback walks
FallbackWords == split(cr.original_text)

HasWords(segment) == segment.words # <<>>

\* the recognizer segments the aligner does not drop, in recognizer order
KeptSegments == SelectSeq(cr.result.segments, HasWords)

\* C6 as stated: the fallback closes a segment at 7 words or at the last
\* word, so n > 0 words give ceil(n/7) segments, all of 7 words but the last.
C6_SevenWordSegments ==
    FallbackCreated /\ Len(FallbackWords) > 0 =>
        LET n == Len(FallbackWords)
            segs == cr.aligned_segments
        IN  /\ Len(segs) = (n + 6) \div 7
            /\ \A i \in 1..Len(segs) :
                  Len(segs[i].words) =
                      IF i < Len(segs) THEN 7 ELSE n - 7 * (Len(segs) - 1)

\* C6 amended: the fallback puts every word, in order, in a segment of its
\* own: n words give n segments of exactly one word each, the segment's text
\* being that word.
C6_OneWordPerSegment ==
    FallbackCreated =>
        LET segs == cr.aligned_segments IN
        /\ Len(segs) = Len(FallbackWords)
        /\ \A i \in 1..Len(segs) :
              /\ Len(segs[i].words) = 1
              /\ segs[i].words[1].word = FallbackWords[i]
              /\ segs[i].text = FallbackWords[i]

C6_Witness ==
    /\ FallbackCreated
    /\ Len(FallbackWords) = 8
    /\ Len(cr.aligned_segments) = 8
    /\ \A i \in 1..8 : Len(cr.aligned_segments[i].words) = 1

AllTimes(segs) ==
    UNION {{segs[i].start, segs[i].end}
             \cup UNION {{segs[i].words[j].start, segs[i].words[j].end} :
                           j \in 1..Len(segs[i].words)} :
           i \in 1..Len(segs)}

\* C7 as stated: for word_count > 0 and duration > 0 the fallback's output
\* spans [0, duration]: it starts at 0 and ends at the audio's duration, no
\* timestamp is negative, and the final segment ends with its last word.
C7_SpansDuration ==
    FallbackCreated /\ Len(FallbackWords) > 0 /\ cr.duration > 0 =>
        LET segs == cr.aligned_segments
            last == segs[Len(segs)]
        IN  /\ segs[1].start = 0
            /\ last.end = cr.duration
            /\ \A t \in AllTimes(segs) : t >= 0
            /\ last.end = last.words[Len(last.words)].end

\* C7 amended: for word_count > 0 the fallback's output spans
\* [0, 0.5 * word_count] whatever the duration is (time_per_word is the fixed
\* 0.5 s): it starts at 0 and ends at 0.5 * word_count, no timestamp is
\* negative, and the final segment ends with its last word.
C7_SpansHalfSecondPerWord ==
    FallbackCreated /\ Len(FallbackWords) > 0 =>
        LET segs == cr.aligned_segments
            last == segs[Len(segs)]
        IN  /\ segs[1].start = 0
            /\ last.end = 50 * Len(FallbackWords)
            /\ \A t \in AllTimes(segs) : t >= 0
            /\ last.end = last.words[Len(last.words)].end

C7_Witness ==
    /\ FallbackCreated
    /\ Len(FallbackWords) = 3
    /\ cr.duration = 1400
    /\ cr.aligned_segments[3].end = 150

\* the invariant of a Segment at creation
SegmentInvariant(seg) ==
    /\ seg.start = seg.words[1].start
    /\ seg.end = seg.words[Len(seg.words)].end
    /\ \A j \in 1..(Len(seg.words) - 1) :
          seg.words[j].start <= seg.words[j + 1].start

\* the invariant of a SubtitleSet at creation
CreationInvariant(segs) ==
    /\ \A i \in 1..Len(segs) : SegmentInvariant(segs[i])
    /\ \A i \in 1..(Len(segs) - 1) : segs[i].start <= segs[i + 1].start

\* the same of the recognizer's own values, rounded, on the segments kept
RecognizerInvariant ==
    LET ne == KeptSegments IN
    /\ \A i \in 1..Len(ne) :
          /\ Round1(ne[i].start) = Round1(ne[i].words[1].start)
          /\ Round1(ne[i].end) = Round1(ne[i].words[Len(ne[i].words)].end)
          /\ \A j \in 1..(Len(ne[i].words) - 1) :
                Round1(ne[i].words[j].start) <= Round1(ne[i].words[j + 1].start)
    /\ \A i \in 1..(Len(ne) - 1) : Round1(ne[i].start) <= Round1(ne[i + 1].start)

\* C8 as stated: every SubtitleSet satisfies, when either constructor has
\* created it: each segment starts with its first word and ends with its
\* last, its words are ordered by start, and the segments are ordered by start.
C8_InvariantAtCreation ==
    cr.pc = "created" => CreationInvariant(cr.aligned_segments)

\* C8 amended: a SubtitleSet created by the fallback satisfies the creation
\* invariant; one created by the aligner carries the recognizer's own bounds
\* and order, so it satisfies the invariant exactly when the recognizer's
\* rounded output does.
C8_InvariantAsRecognized ==
    /\ FallbackCreated => CreationInvariant(cr.aligned_segments)
    /\ AlignerCreated =>
          (CreationInvariant(cr.aligned_segments) <=> RecognizerInvariant)

C8_Witness ==
    /\ AlignerCreated
    /\ Len(cr.aligned_segments) = 2
    /\ Len(cr.aligned_segments[1].words) = 2
    /\ CreationInvariant(cr.aligned_segments)

Matches(ref, w) ==
    IsSubstring(lower(w), lower(ref)) \/ IsSubstring(lower(ref), lower(w))

\* out is the first word of refs related to w, or w itself when none is
FirstMatchOrSelf(w, refs, out) ==
    IF \E i \in 1..Len(refs) : Matches(refs[i], w)
    THEN \E i \in 1..Len(refs) :
            /\ Matches(refs[i], w)
            /\ \A j \in 1..(i - 1) : ~Matches(refs[j], w)
            /\ out = refs[i]
    ELSE out = w

ReferenceWords == split(clean_text(cr.original_text))

\* C9 as stated: each output word's text is the first reference word that
\* contains, or is contained in, the recognizer word (case-insensitive), and
\* the recognizer's own word text, unchanged, when there is none.
C9_FirstMatchOfOwnText ==
    AlignerCreated =>
        \A i \in 1..Len(cr.aligned_segments) :
            \A j \in 1..Len(cr.aligned_segments[i].words) :
                (i <= Len(KeptSegments) /\ j <= Len(KeptSegments[i].words)) =>
                    FirstMatchOrSelf(KeptSegments[i].words[j].word,
                                     ReferenceWords,
                                     cr.aligned_segments[i].words[j].word)

\* C9 amended: the same of the recognizer word with its surrounding
\* whitespace stripped: the first reference word related to the stripped
\* word, and the stripped word when there is none.
C9_FirstMatchOfStrippedText ==
    AlignerCreated =>
        \A i \in 1..Len(cr.aligned_segments) :
            \A j \in 1..Len(cr.aligned_segments[i].words) :
                (i <= Len(KeptSegments) /\ j <= Len(KeptSegments[i].words)) =>
                    FirstMatchOrSelf(strip(KeptSegments[i].words[j].word),
                                     ReferenceWords,
                                     cr.aligned_segments[i].words[j].word)

\* a word related to two different reference words took the first, and a
\* word related to none kept its stripped text
C9_Witness ==
    /\ AlignerCreated
    /\ Len(cr.aligned_segments) = 1
    /\ Len(cr.aligned_segments[1].words) = 2
    /\ LET refs == ReferenceWords
           w1 == strip(KeptSegments[1].words[1].word)
           w2 == KeptSegments[1].words[2].word
       IN  /\ Len(refs) = 2
           /\ refs[1] # refs[2]
           /\ Matches(refs[1], w1) /\ Matches(refs[2], w1)
           /\ cr.aligned_segments[1].words[1].word = refs[1]
           /\ \A k \in 1..2 : ~Matches(refs[k], strip(w2))
           /\ w2 # strip(w2)
           /\ cr.aligned_segments[1].words[2].word = strip(w2)

\* what C10 says of the times and the counts
C10_Shape(segs, ne) ==
    /\ Len(segs) = Len(ne)
    /\ \A i \in 1..Len(segs) :
          /\ segs[i].start = Round1(ne[i].start)
          /\ segs[i].end = Round1(ne[i].end)
          /\ Len(segs[i].words) = Len(ne[i].words)
          /\ \A j \in 1..Len(segs[i].words) :
                /\ segs[i].words[j].start = Round1(ne[i].words[j].start)
                /\ segs[i].words[j].end = Round1(ne[i].words[j].end)

\* C10 as stated: one output segment per recognizer segment that has words,
\* in order; as many words, in order, each with the recognizer's start and
\* end rounded to 1 decimal; the segment's bounds and text are the
\* recognizer segment's own, the text as the recognizer gave it.
C10_OwnTextAndBounds ==
    AlignerCreated =>
        /\ C10_Shape(cr.aligned_segments, KeptSegments)
        /\ \A i \in 1..Len(cr.aligned_segments) :
              cr.aligned_segments[i].text = KeptSegments[i].text

\* C10 amended: the same, the segment's text being the recognizer segment's
\* own text with its surrounding whitespace stripped.
C10_StrippedTextAndBounds ==
    AlignerCreated =>
        /\ C10_Shape(cr.aligned_segments, KeptSegments)
        /\ \A i \in 1..Len(cr.aligned_segments) :
              i <= Len(KeptSegments) =>
                  cr.aligned_segments[i].text = strip(KeptSegments[i].text)

\* a wordless segment was dropped before a kept one, whose bounds differ
\* from its words' and whose text was stripped
C10_Witness ==
    /\ AlignerCreated
    /\ Len(cr.result.segments) = 2
    /\ cr.result.segments[1].words = <<>>
    /\ Len(cr.aligned_segments) = 1
    /\ Len(cr.aligned_segments[1].words) = 2
    /\ cr.aligned_segments[1].start # cr.aligned_segments[1].words[1].start
    /\ cr.aligned_segments[1].text # cr.result.segments[2].text


----------------------------------------------------------------------------
(* CorrectSpec: correct_timing on a project that has a SubtitleSet, one     *)
(* request after the other                                                  *)

MaxBatch == 2       \* corrections of one request

\* (segment_index, word_index): existing words, indices past the end,
\* negative indices that Python wraps, and one below -len
IndexPairs ==
    {<<0, 0>>, <<0, 1>>, <<1, 0>>, <<2, 0>>, <<0, 2>>, <<-1, 0>>, <<0, -1>>,
     <<-3, 0>>}

\* (new_start_time, new_end_time): not multiples of 0.1, and one with the
\* end before the start
NewTimes == {<<7, 33>>, <<123, 91>>}

Corrections ==
    {[segment_index |-> ix[1], word_index |-> ix[2],
      new_start_time |-> t[1], new_end_time |-> t[2]] :
        ix \in IndexPairs, t \in NewTimes}

SysText == <<"a", "b", " ", "c">>

\* a result of two segments, of two words and of one
SysResult == [segments |->
    <<[start |-> 4, end |-> 155, text |-> <<" ", "a", " ", "c">>,
       words |-> <<wA, wB>>],
      [start |-> 200, end |-> 300, text |-> <<"x">>,
       words |-> <<[word |-> <<"x">>, start |-> 205, end |-> 295,
                    confidence |-> 95]>>]>>]

\* the project was processed: its SubtitleSet is what a constructor made of
\* the system's inputs
CorrectInit ==
    /\ IdleSystem
    /\ cr = NoCr
    /\ ex = NoEx
    /\ \E wm \in BOOLEAN, result \in {SysResult, NoResult} :
          LET s == IF wm THEN align_text_with_whisper(result, SysText)
                   ELSE fallback_segments(SysText)
          IN  /\ whisper_model = wm
              /\ ct = [pc |-> "ready", aligned_segments |-> s, before |-> s,
                       corrections |-> <<>>, response |-> "none"]

\* correct_timing, lines 340-361, from the request to the response
CtCorrect ==
    /\ ct.pc = "ready"
    /\ \E corrections \in SeqsUpTo(Corrections, MaxBatch) :
          LET r == correct_segments(Some(ct.aligned_segments), corrections) IN
          ct' = [pc |-> "responded",
                 aligned_segments |->
                     IF r.raised THEN ct.aligned_segments
                     ELSE r.segments.value,
                 before |-> ct.aligned_segments,
                 corrections |-> corrections,
                 response |-> IF r.raised THEN "500" ELSE "200"]
    /\ UNCHANGED <<whisper_model, project, task, request, cr, ex>>

\* the client has the response; the next request may come
CtNextRequest ==
    /\ ct.pc = "responded"
    /\ ct' = [ct EXCEPT !.pc = "ready", !.before = ct.aligned_segments,
                        !.corrections = <<>>, !.response = "none"]
    /\ UNCHANGED <<whisper_model, project, task, request, cr, ex>>

CorrectNext == CtCorrect \/ CtNextRequest

CorrectSpec == CorrectInit /\ [][CorrectNext]_vars


----------------------------------------------------------------------------
(* Claims about correct_timing run alone (CorrectSpec) *)

\* the entry addresses an existing word of segs
AddressesWord(c, segs) ==
    /\ 0 <= c.segment_index /\ c.segment_index < Len(segs)
    /\ 0 <= c.word_index
    /\ c.word_index < Len(segs[c.segment_index + 1].words)

InRangeBefore(c) == AddressesWord(c, ct.before)

\* the entries of the request that address word j of segment i (1-based)
EntriesFor(i, j) ==
    {k \in 1..Len(ct.corrections) :
        /\ ct.corrections[k].segment_index = i - 1
        /\ ct.corrections[k].word_index = j - 1}

Last(S) == CHOOSE k \in S : \A m \in S : m <= k

\* everything but the words' start and end is as before
SameButWordTimes(before, after) ==
    /\ Len(after) = Len(before)
    /\ \A i \in 1..Len(before) :
          /\ after[i].start = before[i].start
          /\ after[i].end = before[i].end
          /\ after[i].text = before[i].text
          /\ Len(after[i].words) = Len(before[i].words)
          /\ \A j \in 1..Len(before[i].words) :
                /\ after[i].words[j].word = before[i].words[j].word
                /\ after[i].words[j].confidence = before[i].words[j].confidence

\* C1: an entry that addresses an existing word sets exactly that word's
\* start and end to the new values, verbatim, and leaves every other word,
\* the word's text and confidence, every segment's start, end and text and
\* the number and order of segments and words as they were. (Of a request
\* all of whose entries address existing words: a word no entry addresses
\* keeps its times, a word addressed has the values of the last such entry.)
C1_ValidEntrySetsThatWordOnly ==
    (ct.pc = "responded"
        /\ \A k \in 1..Len(ct.corrections) : InRangeBefore(ct.corrections[k]))
    =>
        /\ ct.response = "200"
        /\ SameButWordTimes(ct.before, ct.aligned_segments)
        /\ \A i \in 1..Len(ct.before) : \A j \in 1..Len(ct.before[i].words) :
              LET old == ct.before[i].words[j]
                  new == ct.aligned_segments[i].words[j]
              IN  IF EntriesFor(i, j) = {}
                  THEN new.start = old.start /\ new.end = old.end
                  ELSE LET c == ct.corrections[Last(EntriesFor(i, j))] IN
                       /\ new.start = c.new_start_time
                       /\ new.end = c.new_end_time

\* one entry moved the second word of the first segment past the segment's
\* own end, and nothing else moved
C1_Witness ==
    /\ ct.pc = "responded"
    /\ Len(ct.corrections) = 1
    /\ ct.corrections[1].segment_index = 0
    /\ ct.corrections[1].word_index = 1
    /\ InRangeBefore(ct.corrections[1])
    /\ ct.aligned_segments[1].words[2].start = 123
    /\ ct.aligned_segments[1].words[2].end = 91
    /\ ct.before[1].words[2].start = 20
    /\ ct.aligned_segments[1].end = 160
    /\ ct.aligned_segments[1].words[1] = ct.before[1].words[1]

\* C2 as stated: an entry whose segment_index or word_index is outside
\* [0, len), negative indices included, changes nothing and raises no
\* failure; the other entries are applied in order: the request succeeds and
\* the stored result is that of applying only the in-range entries.
C2_OutOfRangeEntriesSkipped ==
    ct.pc = "responded" =>
        /\ ct.response = "200"
        /\ ct.aligned_segments =
              correct_loop(ct.before,
                           SelectSeq(ct.corrections, InRangeBefore)).segments


----------------------------------------------------------------------------
(* Spec: one project from upload through processing, with two              *)
(* correct_timing requests and a download that may come at any time        *)

Requests == {"r1", "r2"}

\* the download requests
Downloads == {"d1"}

\* what a request of the system may carry: nothing, or one entry
SysCorrections ==
    {c \in Corrections :
        /\ <<c.segment_index, c.word_index>>
              \in {<<0, 0>>, <<1, 0>>, <<2, 0>>, <<-1, 0>>}
        /\ c.new_start_time = 7}

SysBatches == {<<>>} \cup {<<c>> : c \in SysCorrections}

NoTask == [pc |-> "none"]

IdleRequest == [pc |-> "idle", corrections |-> <<>>, segments |-> None]

Init ==
    /\ whisper_model \in BOOLEAN      \* load_whisper_model, lines 62-76
    /\ project = [exists |-> FALSE]
    /\ task = NoTask
    /\ request = [r \in Requests \cup Downloads |-> IdleRequest]
    /\ cr = NoCr
    /\ ct = NoCt
    /\ ex = NoEx

\* upload_files, lines 211-251, for a request that is answered 200 (the
\* file names are accepted and the temporary files are written): the
\* document is inserted with the defaults of SubtitleProject and the task is
\* created. A rejected request stores nothing. The text and what the
\* recognizer hears in the audio are the task's inputs.
upload_files ==
    /\ ~project.exists
    /\ \E result \in {SysResult, NoResult} :
          task' = [pc |-> "created", raised |-> FALSE,
                   original_text |-> SysText, result |-> result]
    /\ project' = [exists |-> TRUE, status |-> "processing",
                   whisper_transcription |-> None,
                   aligned_segments |-> None,
                   error_message |-> FALSE]
    /\ UNCHANGED <<whisper_model, request, cr, ct, ex>>

\* lines 320-323 without the update: the failure is only logged
record_error_LogOnly(p) == p

\* lines 320-323: the except branch's update_one
record_error(p) == [p EXCEPT !.status = "error", !.error_message = TRUE]

\* lines 274-283 and 305-313: the update_one of a finished construction
store_segments(p, transcription, segments) ==
    [p EXCEPT !.whisper_transcription = transcription,
              !.aligned_segments = Some(segments),
              !.status = "completed"]

\* process_audio_text, lines 259-313, no step raising: extract the text,
\* transcribe and align (or build the fallback segments), and store
process_store ==
    /\ task.pc = "created"
    /\ project' =
          IF whisper_model
          THEN store_segments(project, Some(task.result),
                   align_text_with_whisper(task.result, task.original_text))
          ELSE store_segments(project, project.whisper_transcription,
                   fallback_segments(task.original_text))
    /\ task' = [task EXCEPT !.pc = "stored"]
    /\ UNCHANGED <<whisper_model, request, cr, ct, ex>>

\* process_audio_text, lines 259-271 raising (the text cannot be decoded,
\* the audio cannot be loaded, the recognizer fails), then lines 318-323
process_raise ==
    /\ task.pc = "created"
    /\ project' = record_error(project)
    /\ task' = [task EXCEPT !.pc = "done", !.raised = TRUE]
    /\ UNCHANGED <<whisper_model, request, cr, ct, ex>>

\* line 316: shutil.rmtree(temp_dir) succeeds
process_cleanup ==
    /\ task.pc = "stored"
    /\ task' = [task EXCEPT !.pc = "done"]
    /\ UNCHANGED <<whisper_model, project, request, cr, ct, ex>>

\* line 316 raising, then lines 318-323
process_cleanup_raise ==
    /\ task.pc = "stored"
    /\ project' = record_error(project)
    /\ task' = [task EXCEPT !.pc = "done", !.raised = TRUE]
    /\ UNCHANGED <<whisper_model, request, cr, ct, ex>>

\* correct_timing, lines 342-354: find_one, then the loop on what it returned
correct_read(r) ==
    /\ request[r].pc = "idle"
    /\ \E corrections \in SysBatches :
          IF ~project.exists
          THEN request' = [request EXCEPT ![r] =
                   [pc |-> "404", corrections |-> corrections,
                    segments |-> None]]
          ELSE LET res == correct_segments(project.aligned_segments,
                                           corrections)
               IN  request' = [request EXCEPT ![r] =
                       [pc |-> IF res.raised THEN "500" ELSE "loaded",
                        corrections |-> corrections,
                        segments |-> IF res.raised
                                     THEN project.aligned_segments
                                     ELSE res.segments]]
    /\ UNCHANGED <<whisper_model, project, task, cr, ct, ex>>

\* correct_timing, lines 356-361: update_one with the list it corrected
correct_write(r) ==
    /\ request[r].pc = "loaded"
    /\ project' = [project EXCEPT !.aligned_segments = request[r].segments]
    /\ request' = [request EXCEPT ![r].pc = "200"]
    /\ UNCHANGED <<whisper_model, task, cr, ct, ex>>

\* download_ttml and download_lrc, lines 363-381 and 383-401, up to the
\* response: find_one, 404 without a project, then the generator on what
\* 'aligned_segments' holds, which raises TypeError on None (a 500). The
\* handlers write a temporary file and nothing to db.projects.
download_status(p) ==
    IF ~p.exists THEN "404"
    ELSE IF p.aligned_segments.none THEN "500"
    ELSE "200"

download_ttml(d) ==
    /\ request[d].pc = "idle"
    /\ request' = [request EXCEPT ![d].pc = download_status(project)]
    /\ UNCHANGED <<whisper_model, project, task, cr, ct, ex>>

download_lrc(d) ==
    /\ request[d].pc = "idle"
    /\ request' = [request EXCEPT ![d].pc = download_status(project)]
    /\ UNCHANGED <<whisper_model, project, task, cr, ct, ex>>

\* a step of the background task (process_raise comes first: it is the
\* cheapest disjunct to find enabled when the task has been created)
TaskStep ==
    \/ process_raise
    \/ process_store
    \/ process_cleanup
    \/ process_cleanup_raise

Next ==
    \/ upload_files
    \/ TaskStep
    \/ \E r \in Requests : correct_read(r)
    \/ \E r \in Requests : correct_write(r)
    \/ \E d \in Downloads : download_ttml(d)
    \/ \E d \in Downloads : download_lrc(d)

Spec == Init /\ [][Next]_vars

\* the event loop runs a created task to its end
FairSpec == Spec /\ WF_vars(TaskStep)


----------------------------------------------------------------------------
(* Claims about the system (Spec, FairSpec) *)

\* the SubtitleSet processing creates from the task's inputs
Created ==
    IF whisper_model
    THEN align_text_with_whisper(task.result, task.original_text)
    ELSE fallback_segments(task.original_text)

\* the two batches applied one after the other, a first
Serial(a, b) ==
    correct_loop(correct_loop(Created, request[a].corrections).segments,
                 request[b].corrections).segments

\* C3 as stated: two correct_timing requests on the same project that run
\* concurrently are serialized: once both are acknowledged, the stored
\* SubtitleSet is the result of applying the two batches one after the other
\* in some order, so no acknowledged correction is lost. (Of two requests
\* that both read the SubtitleSet processing had stored.)
C3_CorrectionsSerialized ==
    (/\ project.exists
     /\ task.pc \in {"stored", "done"}
     /\ \A r \in Requests :
           request[r].pc = "200" /\ ~request[r].segments.none)
    =>
        /\ ~project.aligned_segments.none
        /\ project.aligned_segments.value
              \in {Serial("r1", "r2"), Serial("r2", "r1")}

StatusSettled == project.exists /\ project.status \in {"completed", "error"}

C5_ErrorHasNoSegments ==
    (project.exists /\ project.status = "error") =>
        project.aligned_segments.none

\* C13 as stated: in every reachable state, under any interleaving of the
\* background processing task with correct_timing and download requests for
\* the same project, a project whose status is 'completed' has a stored
\* aligned_segments that is a (possibly empty) list of segments and never
\* null; a correct_timing request that read the project while it was still
\* 'processing' cannot overwrite the SubtitleSet written by processing.
C13_CompletedHasSegments ==
    (project.exists /\ project.status = "completed") =>
        ~project.aligned_segments.none


----------------------------------------------------------------------------
(* ExportSpec: a processed project whose TTML and LRC files are downloaded  *)
(* before and after correct_timing requests, one request at a time         *)

\* a result with a segment whose end is before its start, a segment whose
\* bounds are equal once rounded, and a segment without words
OddResult == [segments |->
    <<[start |-> 200, end |-> 100, text |-> <<" ", "a", " ", "c">>,
       words |-> <<wB, wA>>],
      [start |-> 101, end |-> 104, text |-> <<"x">>,
       words |-> <<[word |-> <<"X">>, start |-> 101, end |-> 104,
                    confidence |-> 95]>>],
      [start |-> 0, end |-> 300, text |-> <<"x">>, words |-> <<>>]>>]

\* batches of one entry: existing words, indices past the end, a negative
\* index that Python wraps and one below -len; a new start past one minute
ExCorrections ==
    {[segment_index |-> ix[1], word_index |-> ix[2],
      new_start_time |-> t[1], new_end_time |-> t[2]] :
        ix \in {<<0, 0>>, <<0, 1>>, <<1, 0>>, <<2, 0>>, <<-1, 0>>, <<-3, 0>>},
        t \in {<<7, 33>>, <<6123, 91>>}}

ExBatches == {<<>>} \cup {<<c>> : c \in ExCorrections}

\* the project_name of the upload form
ProjectName == <<"A", "b">>

NoExports == [ttml |-> None, lrc |-> None]

\* the project was processed: its SubtitleSet is what a constructor made of
\* the inputs
ExportInit ==
    /\ IdleSystem
    /\ cr = NoCr
    /\ ct = NoCt
    /\ \E wm \in BOOLEAN, result \in {SysResult, OddResult, NoResult} :
          /\ whisper_model = wm
          /\ ex = [pc |-> "ready", original_text |-> SysText,
                   result |-> result, project_name |-> ProjectName,
                   aligned_segments |->
                       IF wm THEN align_text_with_whisper(result, SysText)
                       ELSE fallback_segments(SysText),
                   corrected |-> FALSE,
                   before |-> NoExports, after |-> NoExports]

\* download_ttml, lines 363-381, on the stored SubtitleSet: the content of
\* the file it answers with
ExDownloadTtml ==
    /\ ex.pc = "ready"
    /\ LET ttml_content ==
               generate_ttml(ex.aligned_segments, ex.project_name)
       IN  ex' = IF ex.corrected
                 THEN [ex EXCEPT !.after.ttml = Some(ttml_content)]
                 ELSE [ex EXCEPT !.before.ttml = Some(ttml_content)]
    /\ UNCHANGED <<whisper_model, project, task, request, cr, ct>>

\* download_lrc, lines 383-401
ExDownloadLrc ==
    /\ ex.pc = "ready"
    /\ LET lrc_content ==
               generate_lrc(ex.aligned_segments, ex.project_name)
       IN  ex' = IF ex.corrected
                 THEN [ex EXCEPT !.after.lrc = Some(lrc_content)]
                 ELSE [ex EXCEPT !.before.lrc = Some(lrc_content)]
    /\ UNCHANGED <<whisper_model, project, task, request, cr, ct>>

\* correct_timing, lines 340-361, from the request to the response
ExCorrect ==
    /\ ex.pc = "ready"
    /\ \E corrections \in ExBatches :
          LET r == correct_segments(Some(ex.aligned_segments), corrections) IN
          ex' = [ex EXCEPT !.corrected = TRUE,
                           !.aligned_segments =
                               IF r.raised THEN ex.aligned_segments
                               ELSE r.segments.value]
    /\ UNCHANGED <<whisper_model, project, task, request, cr, ct>>

ExportNext == ExDownloadTtml \/ ExDownloadLrc \/ ExCorrect

ExportSpec == ExportInit /\ [][ExportNext]_vars


----------------------------------------------------------------------------
(* Claims about the serializers (ExportSpec) *)

\* the TTML files downloaded so far
TtmlDownloads ==
    {e.ttml.value : e \in {x \in {ex.before, ex.after} : ~x.ttml.none}}

\* the LRC files downloaded so far
LrcDownloads ==
    {e.lrc.value : e \in {x \in {ex.before, ex.after} : ~x.lrc.none}}

DigitValue(c) == CHOOSE d \in 0..9 : Digit(d) = c

IsDigit(c) == \E d \in 0..9 : Digit(d) = c

\* the number a string of digits denotes
RECURSIVE Number(_)
Number(ds) ==
    IF ds = <<>> THEN 0
    ELSE Number(SubSeq(ds, 1, Len(ds) - 1)) * 10 + DigitValue(ds[Len(ds)])

\* s reads <digits>.<digit>s
IsSeconds(s) ==
    /\ Len(s) >= 4
    /\ s[Len(s)] = "s"
    /\ s[Len(s) - 2] = "."
    /\ IsDigit(s[Len(s) - 1])
    /\ \A k \in 1..(Len(s) - 3) : IsDigit(s[k])

\* the value printed in such a string, in hundredths of a second
Seconds(s) ==
    Number(SubSeq(s, 1, Len(s) - 3)) * 100 + DigitValue(s[Len(s) - 1]) * 10

\* one paragraph per Segment, in SubtitleSet order, with the segment's text
OneParagraphPerSegment(ttml, segs) ==
    /\ Len(ttml.div) = Len(segs)
    /\ \A i \in 1..Len(segs) :
          /\ ttml.div[i].text = segs[i].text
          /\ IsSeconds(ttml.div[i].begin)
          /\ IsSeconds(ttml.div[i].end)

\* the recognizer segments the aligner did not drop
ExKept == SelectSeq(ex.result.segments, HasWords)

\* C11 as stated: for any SubtitleSet produced by the system (created by
\* either constructor, then modified by any sequence of correction batches)
\* the TTML output has exactly one paragraph per Segment, in SubtitleSet
\* order, and each paragraph's printed begin value is less than or equal to
\* its printed end value, the two being equal only if the segment's start
\* and end times were equal.
C11_BeginNotAfterEnd ==
    ex.pc = "ready" =>
        \A ttml \in TtmlDownloads :
            /\ OneParagraphPerSegment(ttml, ex.aligned_segments)
            /\ \A i \in 1..Len(ttml.div) :
                  LET p == ttml.div[i]
                      seg == ex.aligned_segments[i]
                  IN  /\ Seconds(p.begin) <= Seconds(p.end)
                      /\ Seconds(p.begin) = Seconds(p.end)
                            => seg.start = seg.end

\* C11: the TTML output has exactly one paragraph per Segment, in
\* SubtitleSet order, whose printed begin and end values are the segment's
\* start and end, whatever corrections were applied; so begin is before end
\* in every paragraph of a SubtitleSet the fallback created, and in a
\* paragraph of one the aligner created begin is less than or equal to end
\* exactly when the recognizer's bounds of that segment, rounded to one
\* decimal, are.
C11_ParagraphsPrintSegmentBounds ==
    ex.pc = "ready" =>
        \A ttml \in TtmlDownloads :
            /\ OneParagraphPerSegment(ttml, ex.aligned_segments)
            /\ whisper_model => Len(ttml.div) = Len(ExKept)
            /\ \A i \in 1..Len(ttml.div) :
                  LET p == ttml.div[i]
                      seg == ex.aligned_segments[i]
                  IN  /\ Seconds(p.begin) = seg.start
                      /\ Seconds(p.end) = seg.end
                      /\ ~whisper_model => Seconds(p.begin) < Seconds(p.end)
                      /\ whisper_model =>
                            (Seconds(p.begin) <= Seconds(p.end)
                                <=> Round1(ExKept[i].start)
                                        <= Round1(ExKept[i].end))

\* a SubtitleSet the aligner created was corrected and then downloaded: two
\* paragraphs, the first from 0.0s to 1.6s, while a word of that segment
\* starts past one minute
C11_Witness ==
    /\ ex.pc = "ready"
    /\ whisper_model
    /\ ex.corrected
    /\ ~ex.after.ttml.none
    /\ Len(ex.after.ttml.value.div) = 2
    /\ ex.after.ttml.value.div[1].begin = <<"0", ".", "0", "s">>
    /\ ex.after.ttml.value.div[1].end = <<"1", ".", "6", "s">>
    /\ ex.aligned_segments[1].words[2].start = 6123
    /\ ex.aligned_segments[1].end = 160

\* the lines of a text each of whose lines ends with a newline
RECURSIVE Lines(_)
Lines(s) ==
    IF s = <<>> THEN <<>>
    ELSE LET k == CHOOSE k \in 1..(Len(s) + 1) :
                     /\ k = Len(s) + 1 \/ s[k] = "\n"
                     /\ \A j \in 1..(k - 1) : s[j] /= "\n"
         IN  <<SubSeq(s, 1, k - 1)>> \o Lines(SubSeq(s, k + 1, Len(s)))

\* t reads MM:SS.ss
IsLrcTime(t) ==
    /\ Len(t) = 8
    /\ t[3] = ":" /\ t[6] = "."
    /\ \A k \in {1, 2, 4, 5, 7, 8} : IsDigit(t[k])

\* line begins with a timestamp in square brackets
HasTimePrefix(line) ==
    /\ Len(line) >= 10
    /\ line[1] = "[" /\ line[10] = "]"
    /\ IsLrcTime(SubSeq(line, 2, 9))

\* rest is one tag <MM:SS.ss> and the word's text for each word, in word
\* order, with a space between one word and the next tag
RECURSIVE IsTagList(_, _)
IsTagList(rest, words) ==
    IF words = <<>> THEN rest = <<>>
    ELSE LET w == Head(words).word
             n == 10 + Len(w)
         IN  /\ Len(rest) >= n
             /\ rest[1] = "<" /\ rest[10] = ">"
             /\ IsLrcTime(SubSeq(rest, 2, 9))
             /\ SubSeq(rest, 11, n) = w
             /\ IF Len(words) = 1 THEN Len(rest) = n
                ELSE /\ Len(rest) > n
                     /\ rest[n + 1] = " "
                     /\ IsTagList(SubSeq(rest, n + 2, Len(rest)),
                                  Tail(words))

\* the number of tags opened in a line
TagCount(line) == Cardinality({k \in 1..Len(line) : line[k] = "<"})

\* the lines segs[1..i] take: one each, and one more for each with words
RECURSIVE LinesUpTo(_, _)
LinesUpTo(segs, i) ==
    IF i = 0 THEN 0
    ELSE LinesUpTo(segs, i - 1) + (IF HasWords(segs[i]) THEN 2 ELSE 1)

\* lines is the four-line header, an empty line and then, for each segment
\* in order, its segment line and, if it has words, its word-level line
LrcLayout(lines, segs, project_name) ==
    /\ Len(lines) = 5 + LinesUpTo(segs, Len(segs))
    /\ lines[1] = lrc_ti \o project_name \o <<"]">>
    /\ lines[2] \o <<"\n">> = lrc_ar
    /\ lines[3] \o <<"\n">> = lrc_al
    /\ lines[4] \o <<"\n", "\n">> = lrc_by
    /\ lines[5] = <<>>
    /\ \A i \in 1..Len(segs) :
          LET at == 5 + LinesUpTo(segs, i - 1) + 1
              segment_line == lines[at]
          IN  /\ HasTimePrefix(segment_line)
              /\ SubSeq(segment_line, 11, Len(segment_line)) = segs[i].text
              /\ TagCount(segment_line) = 0
              /\ HasWords(segs[i]) =>
                    LET word_line == lines[at + 1] IN
                    /\ HasTimePrefix(word_line)
                    /\ SubSeq(word_line, 1, 10) = SubSeq(segment_line, 1, 10)
                    /\ TagCount(word_line) = Len(segs[i].words)
                    /\ IsTagList(SubSeq(word_line, 11, Len(word_line)),
                                 segs[i].words)

\* segs with the words of segment i taken away
WithoutWords(segs, i) == [segs EXCEPT ![i].words = <<>>]

\* C12: in the LRC output, after the four-line header and the blank line,
\* each Segment in order produces one segment line, and a Segment with
\* N >= 1 words additionally produces exactly one word-level line, prefixed
\* with the same segment timestamp, containing exactly N angle-bracket
\* timestamp tags, one per word in word order; a Segment with no words
\* produces no word-level line. (The last part is checked on the stored
\* SubtitleSet with the words of one segment taken away, as no constructor
\* stores a segment without words.)
C12_LrcLayout ==
    ex.pc = "ready" =>
        /\ \A lrc \in LrcDownloads :
              LrcLayout(Lines(lrc), ex.aligned_segments, ex.project_name)
        /\ \A i \in 1..Len(ex.aligned_segments) :
              LET segs == WithoutWords(ex.aligned_segments, i) IN
              LrcLayout(Lines(generate_lrc(segs, ex.project_name)), segs,
                        ex.project_name)

\* the LRC file of a corrected SubtitleSet of two segments, of two words and
\* of one: nine lines, the seventh with the two tags of the first segment
C12_Witness ==
    /\ ex.pc = "ready"
    /\ ex.corrected
    /\ ~ex.after.lrc.none
    /\ Len(ex.aligned_segments) = 2
    /\ Len(ex.aligned_segments[1].words) = 2
    /\ Len(Lines(ex.after.lrc.value)) = 9
    /\ Lines(ex.after.lrc.value)[7] =
          <<"[", "0", "0", ":", "0", "0", ".", "0", "0", "]", "<", "0", "1",
          ":", "0", "1", ".", "2", "3", ">", "a", "b", " ", "<", "0", "0",
          ":", "0", "0", ".", "2", "0", ">", "c">>

\* line with the eight characters after each "<" blanked
MaskTags(line) ==
    [k \in 1..Len(line) |->
        IF \E j \in 1..8 : k - j >= 1 /\ line[k - j] = "<"
        THEN "#" ELSE line[k]]

\* C14: after any sequence of correction batches applied to a SubtitleSet,
\* the TTML export is identical to the TTML export taken before the
\* corrections, and every LRC line that is not a word-level line, the
\* segment lines '[MM:SS.ss]<segment text>' among them, is unchanged; only
\* the angle-bracket word timestamps inside LRC word-level lines can differ.
C14_CorrectionsKeepExports ==
    ex.pc = "ready" =>
        /\ (~ex.before.ttml.none /\ ~ex.after.ttml.none)
              => ex.after.ttml.value = ex.before.ttml.value
        /\ (~ex.before.lrc.none /\ ~ex.after.lrc.none) =>
              LET before == Lines(ex.before.lrc.value)
                  after == Lines(ex.after.lrc.value)
                  segs == ex.aligned_segments
              IN  /\ Len(after) = Len(before)
                  /\ \A i \in 1..Len(segs) :
                        LET at == 5 + LinesUpTo(segs, i - 1) + 1 IN
                        /\ after[at] = before[at]
                        /\ SubSeq(after[at], 11, Len(after[at]))
                              = segs[i].text
                  /\ \A k \in 1..Len(before) :
                        IF TagCount(before[k]) = 0
                        THEN after[k] = before[k]
                        ELSE MaskTags(after[k]) = MaskTags(before[k])

\* both files were downloaded before and after corrections, and the LRC
\* files differ: the first word's tag now reads 01:01.23
C14_Witness ==
    /\ ex.pc = "ready"
    /\ ex.corrected
    /\ ~ex.before.ttml.none /\ ~ex.after.ttml.none
    /\ ~ex.before.lrc.none /\ ~ex.after.lrc.none
    /\ Len(ex.after.ttml.value.div) = 2
    /\ ex.after.lrc.value /= ex.before.lrc.value
    /\ SubSeq(Lines(ex.after.lrc.value)[7], 11, 20)
          = <<"<", "0", "1", ":", "0", "1", ".", "2", "3", ">">>
    /\ SubSeq(Lines(ex.before.lrc.value)[7], 11, 20)
          = <<"<", "0", "0", ":", "0", "0", ".", "0", "0", ">">>


============================================================================
